---- MODULE Spec2Model ----
(***************************************************************************)
(* Model of the frequency-sweep tools of nanomem_freq-filter-dataviz:      *)
(*   - combine_freq.py        the batch tool (parse, group, combine, emit) *)
(*   - freq-filter-dataviz.py the interactive Streamlit viewer             *)
(* File names are TLA+ strings, handled character by character (Len,       *)
(* SubSeq, \o), so that the filename grammar is matched as the regular     *)
(* expression matches it.                                                  *)
(***************************************************************************)
EXTENDS Integers, Sequences, FiniteSets, TLC

\* ------------------------------------------------------------------ bounds

\* The largest number of files the raw_data directory holds.
MaxFiles == 6

\* The largest number of rows the tables given to combine_dataframes hold together.
MaxRows == 3

\* The largest number of executions of the viewer's script in a session.
MaxRuns == 3

\* The largest number of changes made to raw_data during a session.
MaxDiskChanges == 1

\* ------------------------------------------------------- strings and numbers

Char(s, i) == SubSeq(s, i, i)

Digits == {"0", "1", "2", "3", "4", "5", "6", "7", "8", "9"}

IsDigit(c) == c \in Digits

DigitChar(d) == SubSeq("0123456789", d + 1, d + 1)

DigitVal(c) == CHOOSE d \in 0..9 : DigitChar(d) = c

Range(s) == {s[i] : i \in DOMAIN s}

\* int(num) of a string of decimal digits.
RECURSIVE IntOfFrom(_, _, _)
IntOfFrom(s, i, acc) ==
    IF i > Len(s) THEN acc
    ELSE IntOfFrom(s, i + 1, acc * 10 + DigitVal(Char(s, i)))

int(s) == IntOfFrom(s, 1, 0)

\* The decimal text an f-string gives a non-negative integer.
RECURSIVE IntToStr(_)
IntToStr(n) ==
    IF n < 10 THEN DigitChar(n)
    ELSE IntToStr(n \div 10) \o DigitChar(n % 10)

\* The first position >= i of s that holds the character c, 0 when there is none.
RECURSIVE FirstAt(_, _, _)
FirstAt(s, c, i) ==
    IF i > Len(s) THEN 0
    ELSE IF Char(s, i) = c THEN i
    ELSE FirstAt(s, c, i + 1)

\* s.endswith(suffix)
EndsWith(s, suffix) ==
    /\ Len(s) >= Len(suffix)
    /\ SubSeq(s, Len(s) - Len(suffix) + 1, Len(s)) = suffix

\* re.findall(r"\d+", s): the maximal digit runs of s, left to right.
RECURSIVE FindAllFrom(_, _, _, _)
FindAllFrom(s, i, cur, acc) ==
    IF i > Len(s)
    THEN (IF cur = "" THEN acc ELSE Append(acc, cur))
    ELSE IF IsDigit(Char(s, i))
    THEN FindAllFrom(s, i + 1, cur \o Char(s, i), acc)
    ELSE FindAllFrom(s, i + 1, "", IF cur = "" THEN acc ELSE Append(acc, cur))

findall_digits(s) == FindAllFrom(s, 1, "", <<>>)

RECURSIVE SumSeq(_)
SumSeq(q) == IF q = <<>> THEN 0 ELSE Head(q) + SumSeq(Tail(q))

RECURSIVE MaxSeq(_)
MaxSeq(q) ==
    IF Len(q) = 1 THEN Head(q)
    ELSE LET m == MaxSeq(Tail(q)) IN IF Head(q) >= m THEN Head(q) ELSE m

\* ---------------------------------------------------------- parse_filename

\* The nine named groups, in the order groupdict() gives them.
FieldOrder ==
    << "date", "device_chemistry", "device_pixel", "device_configuration",
       "device_degradation", "frequency_range", "datapoint_capture",
       "voltage_offset", "voltage_amplitude" >>

\* parse_filename's "return None".
None == [none |-> TRUE]

\* (?P<date>\d{4}-\d{2}-\d{2})_ at the start of the name.
DateMatches(s) ==
    /\ Len(s) >= 11
    /\ \A i \in {1, 2, 3, 4, 6, 7, 9, 10} : IsDigit(Char(s, i))
    /\ Char(s, 5) = "-"
    /\ Char(s, 8) = "-"
    /\ Char(s, 11) = "_"

\* The rest of the pattern after "-config_", from position p:
\*   [^_]+_ [^_]+_ [^_]+_ [^_]+_ [^V]+Vpk
\* A greedy [^x]+ followed by the literal x ends at the first x and cannot
\* give characters back, so each token ends at the first delimiter after p.
\* The result is <<u1, u2, u3, u4, v>>, the positions of the four "_" and of
\* the "V", or <<>> when the tail does not match.
TailMatch(s, p) ==
    LET u1 == FirstAt(s, "_", p)
        u2 == IF u1 > p THEN FirstAt(s, "_", u1 + 1) ELSE 0
        u3 == IF u2 > u1 + 1 THEN FirstAt(s, "_", u2 + 1) ELSE 0
        u4 == IF u3 > u2 + 1 THEN FirstAt(s, "_", u3 + 1) ELSE 0
        v  == IF u4 > u3 + 1 THEN FirstAt(s, "V", u4 + 1) ELSE 0
    IN  IF v > u4 + 1 /\ u4 > 0 /\ SubSeq(s, v, v + 2) = "Vpk"
        THEN <<u1, u2, u3, u4, v>>
        ELSE <<>>

\* (?P<device_configuration>.+?)-config_ : the lazy quantifier tries the
\* shortest configuration first and lengthens it until the rest matches.
\* The result is the position k of the "-config_" that is taken (0: none).
RECURSIVE ConfigEnd(_, _, _)
ConfigEnd(s, c0, k) ==
    IF k + 7 > Len(s) \/ Char(s, k - 1) = "\n" THEN 0
    ELSE IF SubSeq(s, k, k + 7) = "-config_" /\ TailMatch(s, k + 8) # <<>>
    THEN k
    ELSE ConfigEnd(s, c0, k + 1)

\* A name that fails the grammar after its date still gives a mapping, with
\* the date and empty captures.
parse_filename_partial(filename) ==
    LET s  == filename
        j1 == IF DateMatches(s) THEN FirstAt(s, "-", 12) ELSE 0
        j2 == IF j1 > 12 THEN FirstAt(s, "_", j1 + 1) ELSE 0
        k  == IF j2 > j1 + 1 THEN ConfigEnd(s, j2 + 1, j2 + 2) ELSE 0
        t  == IF k > 0 THEN TailMatch(s, k + 8) ELSE <<0, 0, 0, 0, 0>>
    IN  IF ~ DateMatches(s) THEN None
        ELSE [ date                 |-> SubSeq(s, 1, 10),
               device_chemistry     |-> SubSeq(s, 12, j1 - 1),
               device_pixel         |-> SubSeq(s, j1 + 1, j2 - 1),
               device_configuration |-> SubSeq(s, j2 + 1, k - 1),
               device_degradation   |-> SubSeq(s, k + 8, t[1] - 1),
               frequency_range      |-> SubSeq(s, t[1] + 1, t[2] - 1),
               datapoint_capture    |-> SubSeq(s, t[2] + 1, t[3] - 1),
               voltage_offset       |-> SubSeq(s, t[3] + 1, t[4] - 1),
               voltage_amplitude    |-> SubSeq(s, t[4] + 1, t[5] - 1) ]

parse_filename(filename) ==
    LET s  == filename
        j1 == IF DateMatches(s) THEN FirstAt(s, "-", 12) ELSE 0
        j2 == IF j1 > 12 THEN FirstAt(s, "_", j1 + 1) ELSE 0
        k  == IF j2 > j1 + 1 THEN ConfigEnd(s, j2 + 1, j2 + 2) ELSE 0
        t  == IF k > 0 THEN TailMatch(s, k + 8) ELSE <<>>
    IN  IF k = 0 THEN None
        ELSE [ date                 |-> SubSeq(s, 1, 10),
               device_chemistry     |-> SubSeq(s, 12, j1 - 1),
               device_pixel         |-> SubSeq(s, j1 + 1, j2 - 1),
               device_configuration |-> SubSeq(s, j2 + 1, k - 1),
               device_degradation   |-> SubSeq(s, k + 8, t[1] - 1),
               frequency_range      |-> SubSeq(s, t[1] + 1, t[2] - 1),
               datapoint_capture    |-> SubSeq(s, t[2] + 1, t[3] - 1),
               voltage_offset       |-> SubSeq(s, t[3] + 1, t[4] - 1),
               voltage_amplitude    |-> SubSeq(s, t[4] + 1, t[5] - 1) ]

\* ------------------------------------------------------------------ dates

IsLeap(y) == y % 4 = 0 /\ (y % 100 # 0 \/ y % 400 = 0)

DaysIn(y, m) ==
    IF m \in {4, 6, 9, 11} THEN 30
    ELSE IF m = 2 THEN (IF IsLeap(y) THEN 29 ELSE 28)
    ELSE 31

\* datetime.strptime(x, "%Y-%m-%d") on a string the date group has accepted:
\* the three numbers, or a ValueError when they name no calendar day.
DateNumbers(x) ==
    <<int(SubSeq(x, 1, 4)), int(SubSeq(x, 6, 7)), int(SubSeq(x, 9, 10))>>

strptime_raises(x) ==
    LET n == DateNumbers(x)
    IN  ~ (n[1] >= 1 /\ n[2] \in 1..12 /\ n[3] >= 1 /\ n[3] <= DaysIn(n[1], n[2]))

\* datetime's order: a < b
DateLess(a, b) ==
    \/ a[1] < b[1]
    \/ a[1] = b[1] /\ a[2] < b[2]
    \/ a[1] = b[1] /\ a[2] = b[2] /\ a[3] < b[3]

\* max(dates, key=lambda x: datetime.strptime(x, "%Y-%m-%d")): the first
\* element whose key no other element exceeds.
RECURSIVE MaxByDate(_, _, _)
MaxByDate(dates, i, best) ==
    IF i > Len(dates) THEN best
    ELSE MaxByDate(dates, i + 1,
                   IF DateLess(DateNumbers(best), DateNumbers(dates[i]))
                   THEN dates[i] ELSE best)

\* The key compares the day of the month alone.
RECURSIVE MaxByDay(_, _, _)
MaxByDay(dates, i, best) ==
    IF i > Len(dates) THEN best
    ELSE MaxByDay(dates, i + 1,
                  IF DateNumbers(best)[3] < DateNumbers(dates[i])[3] THEN dates[i] ELSE best)

max_date_by_day(dates) == MaxByDay(dates, 2, dates[1])

max_date(dates) == MaxByDate(dates, 2, dates[1])

\* ----------------------------------------------------------------- tables

\* A measurement table is a sequence of rows [f |-> frequency, v |-> value of
\* the channel]; a combined table holds means, kept as reduced fractions.
RECURSIVE GCD(_, _)
GCD(a, b) == IF b = 0 THEN a ELSE GCD(b, a % b)

Frac(n, d) == LET g == GCD(n, d) IN [num |-> n \div g, den |-> d \div g]

\* pd.concat(dfs, ignore_index=True): the rows of every table, in order.
RECURSIVE concat(_)
concat(dfs) == IF dfs = <<>> THEN <<>> ELSE Head(dfs) \o concat(Tail(dfs))

\* The elements of a set of numbers in ascending order.
RECURSIVE Ascending(_)
Ascending(S) ==
    IF S = {} THEN <<>>
    ELSE LET m == CHOOSE x \in S : \A y \in S : x <= y
         IN  <<m>> \o Ascending(S \ {m})

\* The mean of column v over the rows of the cluster with frequency k.
RECURSIVE SumWhere(_, _)
SumWhere(rows, k) ==
    IF rows = <<>> THEN 0
    ELSE (IF Head(rows).f = k THEN Head(rows).v ELSE 0) + SumWhere(Tail(rows), k)

RECURSIVE CountWhere(_, _)
CountWhere(rows, k) ==
    IF rows = <<>> THEN 0
    ELSE (IF Head(rows).f = k THEN 1 ELSE 0) + CountWhere(Tail(rows), k)

\* The first value of the cluster instead of its mean.
RECURSIVE FirstWhere(_, _)
FirstWhere(rows, k) ==
    IF Head(rows).f = k THEN Head(rows).v ELSE FirstWhere(Tail(rows), k)

cluster_first(rows, k) == Frac(FirstWhere(rows, k), 1)

cluster_mean(rows, k) == Frac(SumWhere(rows, k), CountWhere(rows, k))

\* df.groupby("Oscilator_frequency (Hz)", as_index=False).mean(): one row per
\* key, keys in ascending order (groupby sorts its keys).
groupby_mean(rows) ==
    LET keys == Ascending({rows[i].f : i \in DOMAIN rows})
    IN  [i \in DOMAIN keys |-> [f |-> keys[i], v |-> cluster_mean(rows, keys[i])]]

\* df.sort_values(by="Oscilator_frequency (Hz)"): insertion into a sorted row list.
RECURSIVE InsertRow(_, _)
InsertRow(sorted, r) ==
    IF sorted = <<>> THEN <<r>>
    ELSE IF r.f < Head(sorted).f THEN <<r>> \o sorted
    ELSE <<Head(sorted)>> \o InsertRow(Tail(sorted), r)

RECURSIVE sort_values(_)
sort_values(rows) ==
    IF rows = <<>> THEN <<>>
    ELSE InsertRow(sort_values(SubSeq(rows, 1, Len(rows) - 1)), rows[Len(rows)])

combine_dataframes(dfs) == sort_values(groupby_mean(concat(dfs)))

\* ------------------------------------------------- provenance of a group

RECURSIVE MapInt(_)
MapInt(nums) == IF nums = <<>> THEN <<>> ELSE <<int(Head(nums))>> \o MapInt(Tail(nums))

\* Only the first integer of each token is added.
RECURSIVE sum_first_number(_)
sum_first_number(datapoint_captures) ==
    IF datapoint_captures = <<>> THEN 0
    ELSE LET numbers == MapInt(findall_digits(datapoint_captures[Len(datapoint_captures)]))
         IN  sum_first_number(SubSeq(datapoint_captures, 1, Len(datapoint_captures) - 1))
             + (IF numbers = <<>> THEN 0 ELSE numbers[1])

RECURSIVE sum_datapoint_capture(_)
sum_datapoint_capture(datapoint_captures) ==
    IF datapoint_captures = <<>> THEN 0
    ELSE sum_datapoint_capture(SubSeq(datapoint_captures, 1, Len(datapoint_captures) - 1))
         + SumSeq(MapInt(findall_digits(datapoint_captures[Len(datapoint_captures)])))

RECURSIVE HighestFrom(_, _, _)
HighestFrom(device_degradations, i, highest) ==
    IF i > Len(device_degradations) THEN highest
    ELSE LET numbers == MapInt(findall_digits(device_degradations[i]))
             m       == IF numbers # <<>> THEN MaxSeq(numbers) ELSE 0
         IN  HighestFrom(device_degradations, i + 1,
                         IF numbers # <<>> /\ m > highest THEN m ELSE highest)

\* Only the first integer of each token is compared.
RECURSIVE HighestFirstFrom(_, _, _)
HighestFirstFrom(device_degradations, i, highest) ==
    IF i > Len(device_degradations) THEN highest
    ELSE LET numbers == MapInt(findall_digits(device_degradations[i]))
         IN  HighestFirstFrom(device_degradations, i + 1,
                              IF numbers # <<>> /\ numbers[1] > highest
                              THEN numbers[1] ELSE highest)

highest_first_number(device_degradations) == HighestFirstFrom(device_degradations, 1, 0)

find_highest_degradation(device_degradations) == HighestFrom(device_degradations, 1, 0)

required_ranges == {"500k-5kHz", "5k-200Hz", "200-1Hz"}

combined_freq_range == "500k-1Hz"

\* The f-string of lines 109-118.
new_filename(newest_date, characteristics, highest_degradation, total_datapoint_capture) ==
    newest_date \o "_"
    \o characteristics.device_chemistry \o "-" \o characteristics.device_pixel \o "_"
    \o characteristics.device_configuration \o "-config_"
    \o IntToStr(highest_degradation) \o "daydeg_"
    \o combined_freq_range \o "_"
    \o IntToStr(total_datapoint_capture) \o "p-1s_"
    \o characteristics.voltage_offset \o "_"
    \o characteristics.voltage_amplitude \o "Vpk.txt"

\* -------------------------------------------- combine_dataframes, alone

VARIABLES
    arg_dfs,            \* the tables given to combine_dataframes
    result_df     \* its result, NotCalled before the call

combine_vars == <<arg_dfs, result_df>>

NotCalled == [called |-> FALSE]

Returned(df) == [called |-> TRUE, df |-> df]

\* ------------------------------------------------ the viewer's session

VARIABLES
    viewer_raw_data,    \* raw_data as the session finds it: [name, body] in os.listdir order
    session,            \* "closed" before the page is opened, "open" after
    script_runs,        \* executions of the script so far
    listdir_calls,      \* calls of os.listdir so far
    load_calls,         \* calls of load_data so far
    viewer,             \* the module globals of the last execution
    widgets,            \* every keyed widget of the page: its options and its value
    page,               \* the two figures of the last execution
    raw_data_at_run,    \* raw_data as each execution found it, oldest first
    disk_changes        \* changes made to raw_data so far

viewer_vars ==
    <<viewer_raw_data, session, script_runs, listdir_calls, load_calls,
      viewer, widgets, page, raw_data_at_run, disk_changes>>

NoGlobals == [defined |-> FALSE]

NoPage == [rendered |-> FALSE]

ViewerIdle ==
    /\ viewer_raw_data = <<>>
    /\ session = "idle"
    /\ script_runs = 0
    /\ listdir_calls = 0
    /\ load_calls = 0
    /\ viewer = NoGlobals
    /\ widgets = <<>>
    /\ page = NoPage
    /\ raw_data_at_run = <<>>
    /\ disk_changes = 0

\* ------------------------------------------------------- the batch tool

VARIABLES
    raw_data,       \* the raw_data directory: file name -> body of the file
    listdir_order,  \* the order in which os.listdir returns the names
    pc,             \* where the script is
    txt_files,      \* line 64
    parsed_files,   \* line 67: <<[file, characteristics]>>, in insertion order
    grouped_files,  \* lines 75-78: <<[key, files]>>, in insertion order
    gi,             \* the combine loop's position in grouped_files
    cwd,            \* the working directory: name of a written file -> content
    log             \* one record per group the combine loop has handled

batch_vars ==
    <<raw_data, listdir_order, pc, txt_files, parsed_files, grouped_files, gi, cwd, log>>

\* The variables the batch tool does not touch.
other_vars == <<combine_vars, viewer_vars>>

\* The body of a file of raw_data: its lines that start with "#", whether
\* pd.read_csv parses its other lines under the names of the first of them,
\* and the rows it then gives.
Body(comment_lines, parses, rows) ==
    [comment_lines |-> comment_lines, parses |-> parses, rows |-> rows]

ColumnNames == <<"Oscilator_frequency (Hz)", "Demod_4_X_A (V)">>

\* load_data raises: header_line is None and None.split fails (no "#" line),
\* or pd.read_csv raises its ParserError.
load_data_raises(body) == body.comment_lines = <<>> \/ ~ body.parses

load_data(body) == body.rows

\* ------------------------------------------------- raw_data directories

\* Sweep tables, as the instrument writes them: from the high frequency down.
\* Neighbouring sub-ranges share their boundary frequency.
TableHigh == <<[f |-> 5000, v |-> 2], [f |-> 50, v |-> 4]>>
TableMid  == <<[f |-> 50, v |-> 8], [f |-> 2, v |-> 3]>>
TableLow  == <<[f |-> 2, v |-> 6], [f |-> 1, v |-> 1]>>
TableRun2 == <<[f |-> 5000, v |-> 5], [f |-> 50, v |-> 9]>>

HeaderLine == "# Oscilator_frequency (Hz)\tDemod_4_X_A (V)"

GoodBody(rows) == Body(<<HeaderLine>>, TRUE, rows)

\* The table of a file, by the sub-range its name carries.
Contains(s, sub) ==
    \E i \in 1..(Len(s) - Len(sub) + 1) : SubSeq(s, i, i + Len(sub) - 1) = sub

TableFor(name) ==
    IF Contains(name, "_5k-200Hz_") THEN TableMid
    ELSE IF Contains(name, "_200-1Hz_") THEN TableLow
    ELSE IF Contains(name, "run2") THEN TableRun2
    ELSE TableHigh

\* A file with no "#" line, and a file whose rows do not fit its header.
NoHeaderBody == Body(<<>>, TRUE, TableHigh)
BadRowsBody == Body(<<HeaderLine>>, FALSE, <<>>)

\* A directory: each name with its body; every body is a good table but
\* those of the names in noHeader and badRows.
Directory(names, noHeader, badRows) ==
    [ name \in names |->
        IF name \in noHeader THEN NoHeaderBody
        ELSE IF name \in badRows THEN BadRowsBody
        ELSE GoodBody(TableFor(name)) ]

\* The directory of the main specification: one measurement (chemistry A,
\* pixel p1, configuration top, offset 0V, amplitude 1) with its three
\* sub-ranges, a second run of the first sub-range, a file of a fourth
\* sub-range, a file of another offset, a file whose rows do not parse and a
\* file dated on a day that does not exist.
MainFiles ==
    Directory(
        { "2023-01-05_A-p1_top-config_3daydeg_500k-5kHz_100p_0V_1Vpk.txt",
          "2023-02-01_A-p1_top-config_7daydeg_5k-200Hz_50p_0V_1Vpk.txt",
          "2022-12-31_A-p1_top-config_2daydeg_200-1Hz_10p5s_0V_1Vpk.txt",
          "2023-02-01_A-p1_top-config_nodeg_500k-5kHz_p_0V_1Vpk_run2.txt",
          "2023-01-20_A-p1_top-config_12daydeg_extra_20p_0V_1Vpk.txt",
          "2023-01-05_A-p1_top-config_3daydeg_500k-5kHz_100p_1V_1Vpk.txt",
          "2023-03-01_A-p1_top-config_4d10h_5k-200Hz_7p_0V_1Vpk_bad.txt",
          "2023-02-30_A-p1_top-config_1daydeg_200-1Hz_1p_0V_1Vpk.txt" },
        {},
        { "2023-03-01_A-p1_top-config_4d10h_5k-200Hz_7p_0V_1Vpk_bad.txt" })

\* One measurement whose degradation and capture tokens hold no integer, one
\* integer, several integers and an integer with leading zeros.
TokenFiles ==
    Directory(
        { "2023-01-05_A-p1_top-config_fresh_500k-5kHz_100p_0V_1Vpk.txt",
          "2023-01-06_A-p1_top-config_nodeg_5k-200Hz_50p_0V_1Vpk.txt",
          "2023-01-07_A-p1_top-config_new_200-1Hz_p_0V_1Vpk.txt",
          "2023-01-08_A-p1_top-config_3daydeg_500k-5kHz_10p5s_0V_1Vpk.txt",
          "2023-01-09_A-p1_top-config_7daydeg_5k-200Hz_100p_0V_1Vpk.txt",
          "2023-01-10_A-p1_top-config_2d10h_200-1Hz_007p_0V_1Vpk.txt",
          "2023-01-11_A-p1_top-config_2daydeg_200-1Hz_50p_0V_1Vpk.txt" },
        {}, {})

\* Files that differ from the first in the four excluded fields alone, and in
\* exactly one of the five fields of the key (the amplitudes 1 and 1.0 are
\* the same number and different strings).
GroupingFiles ==
    Directory(
        { "2023-01-05_A-p1_top-config_3daydeg_500k-5kHz_100p_0V_1Vpk.txt",
          "2022-12-31_A-p1_top-config_7daydeg_200-1Hz_50p_0V_1Vpk.txt",
          "2023-01-05_B-p1_top-config_3daydeg_500k-5kHz_100p_0V_1Vpk.txt",
          "2023-01-05_A-p2_top-config_3daydeg_500k-5kHz_100p_0V_1Vpk.txt",
          "2023-01-05_A-p1_bot-config_3daydeg_500k-5kHz_100p_0V_1Vpk.txt",
          "2023-01-05_A-p1_top-config_3daydeg_500k-5kHz_100p_1V_1Vpk.txt",
          "2023-01-05_A-p1_top-config_3daydeg_500k-5kHz_100p_0V_1.0Vpk.txt" },
        {}, {})

\* Names the grammar rejects (no Vpk, an empty degradation, a two-digit
\* year), each with a body that would not load; a name the grammar
\* accepts that is no .txt file; and one measurement whose configuration
\* holds "-config_" and whose capture token holds a "V".
UnmatchedNames ==
    { "2023-01-05_A-p1_top-config_3daydeg_500k-5kHz_100p_0V_1.txt",
      "2023-01-05_A-p1_top-config__500k-5kHz_100p_0V_1Vpk.txt",
      "23-01-05_A-p1_top-config_3daydeg_500k-5kHz_100p_0V_1Vpk.txt" }

NameFiles ==
    Directory(
        UnmatchedNames \cup
        { "2023-01-05_A-p1_top-config_3daydeg_500k-5kHz_100p_0V_1Vpk.csv",
          "2023-01-05_A-p1_a-config_b_c-config_3daydeg_500k-5kHz_100Vp_0_1Vpk.txt",
          "2023-02-01_A-p1_a-config_b_c-config_7daydeg_5k-200Hz_50Vp_0_1Vpk.txt",
          "2022-12-31_A-p1_a-config_b_c-config_2daydeg_200-1Hz_10Vp_0_1Vpk.txt" },
        UnmatchedNames \cup { "2023-01-05_A-p1_top-config_3daydeg_500k-5kHz_100p_0V_1Vpk.csv" },
        {})

\* Two measurements (offsets 0V and 1V); the files of the third sub-range
\* of the second do not load: one has no "#" line, the rows of the other do
\* not fit the header.
FailureFiles ==
    Directory(
        { "2023-01-05_A-p1_top-config_3daydeg_500k-5kHz_100p_0V_1Vpk.txt",
          "2023-02-01_A-p1_top-config_7daydeg_5k-200Hz_50p_0V_1Vpk.txt",
          "2022-12-31_A-p1_top-config_2daydeg_200-1Hz_10p5s_0V_1Vpk.txt",
          "2023-01-05_A-p1_top-config_3daydeg_500k-5kHz_100p_1V_1Vpk.txt",
          "2023-02-01_A-p1_top-config_7daydeg_5k-200Hz_50p_1V_1Vpk.txt",
          "2022-12-30_A-p1_top-config_2daydeg_200-1Hz_10p_1V_1Vpk_nohdr.txt",
          "2022-12-29_A-p1_top-config_2daydeg_200-1Hz_10p_1V_1Vpk_cols.txt" },
        { "2022-12-30_A-p1_top-config_2daydeg_200-1Hz_10p_1V_1Vpk_nohdr.txt" },
        { "2022-12-29_A-p1_top-config_2daydeg_200-1Hz_10p_1V_1Vpk_cols.txt" })

\* The files a viewer's session meets: two measurements of chemistry A that
\* differ in pixel and date and carry the same amplitude written 1 and 1.0,
\* one of chemistry B at the amplitude 2, and one of another configuration
\* and offset.
ViewerNames ==
    << "2023-01-05_A-p1_top-config_3daydeg_500k-5kHz_100p_0V_1Vpk.txt",
       "2023-01-06_A-p2_top-config_3daydeg_500k-5kHz_100p_0V_1.0Vpk.txt",
       "2023-01-06_B-p1_top-config_3daydeg_500k-5kHz_100p_0V_2Vpk.txt",
       "2023-01-05_A-p1_bot-config_3daydeg_500k-5kHz_100p_1V_1Vpk.txt" >>

\* Every name the directories hold.
KnownNames ==
    DOMAIN MainFiles \cup DOMAIN TokenFiles \cup DOMAIN GroupingFiles
    \cup DOMAIN NameFiles \cup DOMAIN FailureFiles \cup Range(ViewerNames)

\* parse_filename of the known names, computed once: the script parses each
\* name of every directory, and the table saves matching it again in every
\* state. A name outside the table is parsed on the spot.
ParseCache == [f \in KnownNames |-> parse_filename(f)]

Parsed(f) == IF f \in KnownNames THEN ParseCache[f] ELSE parse_filename(f)

\* The key of a file: the (name, value) pairs of the groups that are not excluded.
RECURSIVE KeyFrom(_, _, _)
KeyFrom(characteristics, excluded, i) ==
    IF i > Len(FieldOrder) THEN <<>>
    ELSE (IF FieldOrder[i] \in excluded THEN <<>>
          ELSE << <<FieldOrder[i], characteristics[FieldOrder[i]]>> >>)
         \o KeyFrom(characteristics, excluded, i + 1)

\* The offset is left out of the key as well.
batch_excluded_offset ==
    {"frequency_range", "datapoint_capture", "device_degradation", "date", "voltage_offset"}

batch_excluded == {"frequency_range", "datapoint_capture", "device_degradation", "date"}

group_key(characteristics) == KeyFrom(characteristics, batch_excluded, 1)

\* grouped_files[key].append(file) on a defaultdict(list)
AppendToGroup(groups, key, file) ==
    IF \E i \in DOMAIN groups : groups[i].key = key
    THEN [i \in DOMAIN groups |->
            IF groups[i].key = key
            THEN [key |-> key, files |-> Append(groups[i].files, file)]
            ELSE groups[i]]
    ELSE Append(groups, [key |-> key, files |-> <<file>>])

RECURSIVE GroupLoop(_, _, _)
GroupLoop(parsed, i, groups) ==
    IF i > Len(parsed) THEN groups
    ELSE GroupLoop(parsed, i + 1,
                   AppendToGroup(groups, group_key(parsed[i].characteristics), parsed[i].file))

\* parsed_files[file]
Characteristics(parsed, file) ==
    (CHOOSE e \in Range(parsed) : e.file = file).characteristics

\* dict(key)[name]
KeyValue(key, name) == (CHOOSE kv \in Range(key) : kv[1] = name)[2]

KeyDict(key) == [name \in {key[i][1] : i \in DOMAIN key} |-> KeyValue(key, name)]

\* line 64
ListDir ==
    /\ pc = "listdir"
    /\ txt_files' = SelectSeq(listdir_order, LAMBDA f : EndsWith(f, ".txt"))
    /\ pc' = "parse"
    /\ UNCHANGED <<raw_data, listdir_order, parsed_files, grouped_files, gi, cwd, log>>
    /\ UNCHANGED other_vars

\* line 67
ParseFilenames ==
    /\ pc = "parse"
    /\ LET all == [i \in DOMAIN txt_files |->
                     [file |-> txt_files[i], characteristics |-> Parsed(txt_files[i])]]
       IN  parsed_files' = SelectSeq(all, LAMBDA e : e.characteristics # None)
    /\ pc' = "group"
    /\ UNCHANGED <<raw_data, listdir_order, txt_files, grouped_files, gi, cwd, log>>
    /\ UNCHANGED other_vars

\* lines 75-78
GroupFiles ==
    /\ pc = "group"
    /\ grouped_files' = GroupLoop(parsed_files, 1, <<>>)
    /\ gi' = 1
    /\ pc' = "combine"
    /\ UNCHANGED <<raw_data, listdir_order, txt_files, parsed_files, cwd, log>>
    /\ UNCHANGED other_vars

LogEntry(outcome, g, name, date, degradation, capture) ==
    [ outcome |-> outcome, key |-> g.key, files |-> g.files, new_filename |-> name,
      newest_date |-> date, highest_degradation |-> degradation,
      total_datapoint_capture |-> capture ]

\* The content written by lines 121-123: the header line and the rows.
FileContent(combined_df) == [header |-> ColumnNames, rows |-> combined_df]

\* The exception is caught and the loop goes on with the next group.
AbortRunSwallowed(g, outcome) ==
    /\ log' = Append(log, LogEntry(outcome, g, "", "", 0, 0))
    /\ gi' = gi + 1
    /\ UNCHANGED <<pc, cwd>>

\* An exception raised inside the loop body is caught nowhere: the script ends.
AbortRun(g, outcome) ==
    /\ pc' = "aborted"
    /\ log' = Append(log, LogEntry(outcome, g, "", "", 0, 0))
    /\ UNCHANGED <<gi, cwd>>

\* A superset of the required sub-ranges passes too.
ranges_complete_superset(frequency_ranges) == required_ranges \subseteq Range(frequency_ranges)

\* line 92: set(frequency_ranges) == required_ranges
ranges_complete(frequency_ranges) == Range(frequency_ranges) = required_ranges

\* lines 85-127: one pass of the combine loop
CombineGroup ==
    /\ pc = "combine"
    /\ gi <= Len(grouped_files)
    /\ LET g     == grouped_files[gi]
           files == g.files
           field(name) == [i \in DOMAIN files |-> Characteristics(parsed_files, files[i])[name]]
           frequency_ranges == field("frequency_range")
       IN  IF ranges_complete(frequency_ranges)
           THEN IF \E i \in DOMAIN files : load_data_raises(raw_data[files[i]])
                THEN \* line 94 raises: the exception ends the script
                     AbortRun(g, "load_error")
                ELSE LET dfs == [i \in DOMAIN files |-> load_data(raw_data[files[i]])]
                         combined_df == combine_dataframes(dfs)
                         characteristics == KeyDict(g.key)
                         total_datapoint_capture ==
                             sum_datapoint_capture(field("datapoint_capture"))
                         dates == field("date")
                     IN  IF \E i \in DOMAIN dates : strptime_raises(dates[i])
                         THEN \* line 102 raises ValueError
                              AbortRun(g, "date_error")
                         ELSE LET newest_date == max_date(dates)
                                  highest_degradation ==
                                      find_highest_degradation(field("device_degradation"))
                                  name == new_filename(newest_date, characteristics,
                                                       highest_degradation,
                                                       total_datapoint_capture)
                              IN  /\ cwd' = [n \in DOMAIN cwd \cup {name} |->
                                               IF n = name THEN FileContent(combined_df)
                                               ELSE cwd[n]]
                                  /\ log' = Append(log, LogEntry("created", g, name, newest_date,
                                                                 highest_degradation,
                                                                 total_datapoint_capture))
                                  /\ gi' = gi + 1
                                  /\ pc' = pc
           ELSE \* line 127
                /\ log' = Append(log, LogEntry("skipped", g, "", "", 0, 0))
                /\ gi' = gi + 1
                /\ UNCHANGED <<pc, cwd>>
    /\ UNCHANGED <<raw_data, listdir_order, txt_files, parsed_files, grouped_files>>
    /\ UNCHANGED other_vars

\* line 129
Finish ==
    /\ pc = "combine"
    /\ gi > Len(grouped_files)
    /\ pc' = "complete"
    /\ UNCHANGED <<raw_data, listdir_order, txt_files, parsed_files, grouped_files, gi, cwd, log>>
    /\ UNCHANGED other_vars

BatchNext == ListDir \/ ParseFilenames \/ GroupFiles \/ CombineGroup \/ Finish

\* Every listing of at most MaxFiles distinct names of P, in every order.
RECURSIVE ListingsOfLen(_, _)
ListingsOfLen(P, n) ==
    IF n = 0 THEN {<<>>}
    ELSE UNION {{Append(q, f) : f \in P \ Range(q)} : q \in ListingsOfLen(P, n - 1)}

Listings(P) == UNION {ListingsOfLen(P, n) : n \in 0..MaxFiles}

\* The batch tool has no part in the run.
BatchIdle ==
    /\ listdir_order = <<>>
    /\ raw_data = <<>>
    /\ pc = "idle"
    /\ txt_files = <<>>
    /\ parsed_files = <<>>
    /\ grouped_files = <<>>
    /\ gi = 0
    /\ cwd = <<>>
    /\ log = <<>>

CombineIdle == arg_dfs = <<>> /\ result_df = NotCalled

\* The state before the script starts, over a directory drawn from `files`.
BatchInit(files) ==
    /\ listdir_order \in Listings(DOMAIN files)
    /\ raw_data = [f \in Range(listdir_order) |-> files[f]]
    /\ pc = "listdir"
    /\ txt_files = <<>>
    /\ parsed_files = <<>>
    /\ grouped_files = <<>>
    /\ gi = 0
    /\ cwd = <<>>
    /\ log = <<>>
    /\ CombineIdle
    /\ ViewerIdle

vars == <<batch_vars, combine_vars, viewer_vars>>

Init == BatchInit(MainFiles)

Next == BatchNext

Spec == Init /\ [][Next]_vars

InitTokens == BatchInit(TokenFiles)

SpecTokens == InitTokens /\ [][Next]_vars

InitGrouping == BatchInit(GroupingFiles)

SpecGrouping == InitGrouping /\ [][Next]_vars

InitNames == BatchInit(NameFiles)

SpecNames == InitNames /\ [][Next]_vars

InitFailure == BatchInit(FailureFiles)

SpecFailure == InitFailure /\ [][Next]_vars

\* ---- combine_dataframes on every list of tables

Frequencies == {1, 10, 1000}

Values == {2, 4, 5}

Rows == [f : Frequencies, v : Values]

\* The ways to cut a sequence of n rows into consecutive non-empty tables:
\* the sets of positions after which a table ends.
Cuts(n) == SUBSET (1..(n - 1))

\* The tables the cut gives: table t runs from one end to the next.
RECURSIVE TablesOf(_, _, _)
TablesOf(rows, cut, from) ==
    IF from > Len(rows) THEN <<>>
    ELSE LET ends == {c \in cut : c >= from}
             to   == IF ends = {} THEN Len(rows)
                     ELSE CHOOSE c \in ends : \A e \in ends : c <= e
         IN  <<SubSeq(rows, from, to)>> \o TablesOf(rows, cut, to + 1)

\* Every list of non-empty tables with at most MaxRows rows together.
InitCombine ==
    /\ \E n \in 1..MaxRows : \E rows \in [1..n -> Rows] : \E cut \in Cuts(n) :
          arg_dfs = TablesOf(rows, cut, 1)
    /\ result_df = NotCalled
    /\ BatchIdle
    /\ ViewerIdle

\* lines 40-44
CombineDataframes ==
    /\ result_df = NotCalled
    /\ result_df' = Returned(combine_dataframes(arg_dfs))
    /\ UNCHANGED <<arg_dfs, batch_vars, viewer_vars>>

NextCombine == CombineDataframes

SpecCombine == InitCombine /\ [][NextCombine]_vars

\* ------------------------------------------------- the viewer's script

\* The characters of file names, in code point order.
Alphabet == "-.0123456789ABCDEFGHIJKLMNOPQRSTUVWXYZ_abcdefghijklmnopqrstuvwxyz"

CodePoint(c) == FirstAt(Alphabet, c, 1)

\* a < b on Python strings: at the first position where they differ a has
\* ended or holds the smaller character.
StrLess(a, b) ==
    \E i \in 1..Len(b) :
        /\ i <= Len(a) + 1
        /\ SubSeq(a, 1, i - 1) = SubSeq(b, 1, i - 1)
        /\ \/ i = Len(a) + 1
           \/ CodePoint(Char(a, i)) < CodePoint(Char(b, i))

\* sorted(list(set(...))) of strings: the i-th string has i - 1 below it.
sorted(S) ==
    [i \in 1..Cardinality(S) |->
        CHOOSE x \in S : Cardinality({y \in S : StrLess(y, x)}) = i - 1]

AllDigits(s) == \A i \in 1..Len(s) : IsDigit(Char(s, i))

RECURSIVE TenTo(_)
TenTo(n) == IF n = 0 THEN 1 ELSE 10 * TenTo(n - 1)

\* float(s) on the tokens made of digits and at most one point, as a
\* fraction; every other token of the directories at hand raises ValueError.
float_raises(s) ==
    LET dot == FirstAt(s, ".", 1)
    IN  IF dot = 0 THEN s = "" \/ ~ AllDigits(s)
        ELSE \/ Len(s) = 1
             \/ ~ AllDigits(SubSeq(s, 1, dot - 1))
             \/ ~ AllDigits(SubSeq(s, dot + 1, Len(s)))

float(s) ==
    LET dot == FirstAt(s, ".", 1)
    IN  IF dot = 0 THEN Frac(int(s), 1)
        ELSE Frac(int(SubSeq(s, 1, dot - 1) \o SubSeq(s, dot + 1, Len(s))),
                  TenTo(Len(s) - dot))

\* pandas' NaN and the infinities: no denominator.
NaN == [num |-> 0, den |-> 0]

FracLess(a, b) == a.num * b.den < b.num * a.den

\* lines 50-52
viewer_excluded ==
    {"device_chemistry", "date", "device_degradation", "device_pixel", "voltage_amplitude"}

\* The values of a key, without the names.
ValuesOf(pairs) == [i \in DOMAIN pairs |-> pairs[i][2]]

viewer_key(metadata) == ValuesOf(KeyFrom(metadata, viewer_excluded, 1))

\* line 137
grouped_files_excluded == {"date", "device_degradation", "datapoint_capture", "frequency_range"}

\* Index.unique(), and the keys of a dict: the first occurrences, in order.
unique(q) ==
    LET firsts == {i \in DOMAIN q : \A j \in 1..(i - 1) : q[j] # q[i]}
    IN  [k \in 1..Cardinality(firsts) |->
            q[CHOOSE i \in firsts : Cardinality({j \in firsts : j < i}) = k - 1]]

\* lines 132-143: a dict of lists, keys in the order of their first file,
\* files in the order of parsed_files.
GroupedFiles(parsed) ==
    LET KeyOf(e) == ValuesOf(KeyFrom(e.characteristics, grouped_files_excluded, 1))
        keys == unique([i \in DOMAIN parsed |-> KeyOf(parsed[i])])
    IN  [k \in DOMAIN keys |->
            LET members == SelectSeq(parsed, LAMBDA e : KeyOf(e) = keys[k])
            IN  [key |-> keys[k], files |-> [j \in DOMAIN members |-> members[j].file]]]

\* lines 53-55: the table of a file with its two added columns.
Tagged(rows, metadata) ==
    [i \in DOMAIN rows |->
        [f |-> rows[i].f, v |-> rows[i].v,
         voltage_amplitude |-> float(metadata.voltage_amplitude),
         device_chemistry |-> metadata.device_chemistry]]

\* lines 46-62: grouped_data, a dict of lists: keys in the order of their
\* first file, tables in the order of parsed_files.
GroupedData(parsed, bodies) ==
    LET keys == unique([i \in DOMAIN parsed |-> viewer_key(parsed[i].characteristics)])
    IN  [k \in DOMAIN keys |->
            LET members == SelectSeq(parsed,
                              LAMBDA e : viewer_key(e.characteristics) = keys[k])
            IN  [key |-> keys[k],
                 dfs |-> [j \in DOMAIN members |->
                            Tagged(load_data(bodies[members[j].file]),
                                   members[j].characteristics)]]]

NumericCols == ColumnNames \o <<"voltage_amplitude", "Normalized_Vout (%)">>

\* The index of the grouped tables: chemistry, amplitude, frequency.
IndexOf(row) == <<row.device_chemistry, row.voltage_amplitude, row.f>>

IndexLess(a, b) ==
    \/ StrLess(a[1], b[1])
    \/ a[1] = b[1] /\ FracLess(a[2], b[2])
    \/ a[1] = b[1] /\ a[2] = b[2] /\ a[3] < b[3]

\* groupby sorts its keys: the i-th key has i - 1 below it.
SortedIndex(S) ==
    [i \in 1..Cardinality(S) |->
        CHOOSE x \in S : Cardinality({y \in S : IndexLess(y, x)}) = i - 1]

\* The sum of v, or of its square, over the rows at an index, from row i on.
RECURSIVE SumVFrom(_, _, _, _)
SumVFrom(rows, index, power, i) ==
    IF i > Len(rows) THEN 0
    ELSE (IF IndexOf(rows[i]) = index
          THEN (IF power = 2 THEN rows[i].v * rows[i].v ELSE rows[i].v)
          ELSE 0)
         + SumVFrom(rows, index, power, i + 1)

SumV(rows, index, power) == SumVFrom(rows, index, power, 1)

CountIndex(rows, index) == Cardinality({i \in DOMAIN rows : IndexOf(rows[i]) = index})

\* line 57 and line 72 on a cell: the mean of (v / (amplitude / 1.4142)) * 100
\* over the cell, in units of 1.4142.
NormalizedMean(sum, n, amplitude) ==
    IF amplitude.num = 0 THEN NaN
    ELSE Frac(sum * 100 * amplitude.den, n * amplitude.num)

\* line 72: the row of mean_df at an index.
MeanRow(rows, index) ==
    LET n   == CountIndex(rows, index)
        sum == SumV(rows, index, 1)
    IN  [index |-> index,
         values |-> [c \in Range(NumericCols) |->
            CASE c = "Oscilator_frequency (Hz)" -> Frac(index[3], 1)
              [] c = "Demod_4_X_A (V)" -> Frac(sum, n)
              [] c = "voltage_amplitude" -> index[2]
              [] c = "Normalized_Vout (%)" -> NormalizedMean(sum, n, index[2])]]

\* line 73: the row of std_df at an index; a deviation is carried as its
\* square, the sample variance, and is NaN on a single row.
StdRow(rows, index) ==
    LET n   == CountIndex(rows, index)
        sum == SumV(rows, index, 1)
        ssq == n * SumV(rows, index, 2) - sum * sum
    IN  [index |-> index,
         values |-> [c \in Range(NumericCols) |->
            IF n = 1 THEN NaN
            ELSE CASE c = "Demod_4_X_A (V)" -> Frac(ssq, n * (n - 1))
                   [] c = "Normalized_Vout (%)" ->
                        IF index[2].num = 0 THEN NaN
                        ELSE Frac(ssq * 100 * 100 * index[2].den * index[2].den,
                                  n * (n - 1) * index[2].num * index[2].num)
                   [] OTHER -> Frac(0, 1)]]

mean_df_of(rows) ==
    LET index == SortedIndex({IndexOf(rows[i]) : i \in DOMAIN rows})
    IN  [i \in DOMAIN index |-> MeanRow(rows, index[i])]

std_df_of(rows) ==
    LET index == SortedIndex({IndexOf(rows[i]) : i \in DOMAIN rows})
    IN  [i \in DOMAIN index |-> StdRow(rows, index[i])]

\* The first file of parsed_files on which group_data raises, 0 when none:
\* load_data raises, or float() of the amplitude does.
RECURSIVE FirstRaise(_, _, _)
FirstRaise(parsed, bodies, i) ==
    IF i > Len(parsed) THEN 0
    ELSE IF \/ load_data_raises(bodies[parsed[i].file])
            \/ float_raises(parsed[i].characteristics.voltage_amplitude)
         THEN i
    ELSE FirstRaise(parsed, bodies, i + 1)

\* lines 65-77: grouped_results, from grouped_data.
group_data(grouped_data) ==
    [i \in DOMAIN grouped_data |->
        [key     |-> grouped_data[i].key,
         mean_df |-> mean_df_of(concat(grouped_data[i].dfs)),
         std_df  |-> std_df_of(concat(grouped_data[i].dfs))]]

\* ---- the widgets

NoWidgets == [k \in {} |-> 0]

\* A keyed radio or selectbox: the value of the key in the session state
\* while it is one of the options, else the option at the default index;
\* <<>> is None, the value of a widget with no option.
Choice(state, key, options, index) ==
    IF key \in DOMAIN state /\ state[key] # <<>> /\ state[key][1] \in Range(options)
    THEN state[key]
    ELSE IF options = <<>> THEN <<>> ELSE <<options[index]>>

radio(state, key, options) ==
    [kind |-> "radio", options |-> options, value |-> Choice(state, key, options, 1)]

selectbox(state, key, options, index) ==
    [kind |-> "selectbox", options |-> options, value |-> Choice(state, key, options, index)]

multiselect(state, key, options, default) ==
    [kind |-> "multiselect", options |-> options,
     value |-> IF key \in DOMAIN state /\ Range(state[key]) \subseteq Range(options)
               THEN state[key] ELSE default]

checkbox(state, key, value) ==
    [kind |-> "checkbox", options |-> <<FALSE, TRUE>>,
     value |-> IF key \in DOMAIN state THEN state[key] ELSE value]

\* lines 43: parsed_files, in the order of txt_files.
ParsedFiles(txt_files_) ==
    SelectSeq([i \in DOMAIN txt_files_ |->
                  [file |-> txt_files_[i], characteristics |-> Parsed(txt_files_[i])]],
              LAMBDA e : e.characteristics # None)

\* lines 89-125
Sidebar(parsed, grouped_results, state) ==
    LET available_voltage_offsets ==
            sorted({parsed[i].characteristics.voltage_offset : i \in DOMAIN parsed})
        available_device_configurations ==
            sorted({parsed[i].characteristics.device_configuration : i \in DOMAIN parsed})
        selected_voltage_offset ==
            radio(state, "voltage_offset_filter", available_voltage_offsets)
        selected_device_configuration ==
            radio(state, "device_configuration_filter", available_device_configurations)
        filtered_keys ==
            SelectSeq([i \in DOMAIN grouped_results |-> grouped_results[i].key],
                LAMBDA key : \E i \in DOMAIN parsed :
                    /\ key = viewer_key(parsed[i].characteristics)
                    /\ <<parsed[i].characteristics.voltage_offset>>
                         = selected_voltage_offset.value
                    /\ <<parsed[i].characteristics.device_configuration>>
                         = selected_device_configuration.value)
    IN  ("voltage_offset_filter" :> selected_voltage_offset)
        @@ ("device_configuration_filter" :> selected_device_configuration)
        @@ ("device_configuration_dropdown"
              :> selectbox(state, "device_configuration_dropdown", filtered_keys, 1))
        @@ ("error_bars_toggle" :> checkbox(state, "error_bars_toggle", TRUE))

\* df.xs((chemistry, voltage), level=[...]); an empty selection is its KeyError.
xs(df, chemistry, voltage) ==
    SelectSeq(df, LAMBDA r : r.index[1] = chemistry /\ r.index[2] = voltage)

Column(df, c) == [i \in DOMAIN df |-> df[i].values[c]]

x_column == "Oscilator_frequency (Hz)"

default_y_column == "Demod_4_X_A (V)"

StartsWith(s, prefix) == Len(s) >= Len(prefix) /\ SubSeq(s, 1, Len(prefix)) = prefix

\* lines 172-173
filtered_columns ==
    SelectSeq(NumericCols, LAMBDA col : ~ (StartsWith(col, "Demod_1") \/ StartsWith(col, "DemodAll")))

default_index ==
    IF default_y_column \in Range(filtered_columns)
    THEN CHOOSE i \in DOMAIN filtered_columns : filtered_columns[i] = default_y_column
    ELSE 1

\* lines 184-199 and 249-264
add_scatter(mean_df, std_df, chemistry, voltage, y_column, show_error_bars) ==
    LET mean_df_selected == xs(mean_df, chemistry, voltage)
        std_df_selected  == xs(std_df, chemistry, voltage)
    IN  [name |-> <<chemistry, voltage>>,
         x |-> Column(mean_df_selected, x_column),
         y |-> Column(mean_df_selected, y_column),
         error_y |-> [array |-> IF show_error_bars
                                THEN Column(std_df_selected, y_column) ELSE <<>>,
                      visible |-> show_error_bars]]

NoFigure == [shown |-> FALSE]

\* lines 154-215
TabChemistry(mean_df, std_df, show_error_bars, state) ==
    LET available_chemistries == unique([i \in DOMAIN mean_df |-> mean_df[i].index[1]])
        available_voltages == unique([i \in DOMAIN mean_df |-> mean_df[i].index[2]])
        selected_chemistries ==
            multiselect(state, "chemistry_multiselect", available_chemistries,
                        <<available_chemistries[1]>>)
        selected_voltage == radio(state, "chemistry_voltage", available_voltages)
        y_column == selectbox(state, "chemistry_y_column", filtered_columns, default_index)
        use_log_scale == checkbox(state, "chemistry_log_scale", FALSE)
        chosen == selected_chemistries.value
        raised == \E i \in DOMAIN chosen :
                     xs(mean_df, chosen[i], selected_voltage.value[1]) = <<>>
    IN  [widgets |-> ("chemistry_multiselect" :> selected_chemistries)
                     @@ ("chemistry_voltage" :> selected_voltage)
                     @@ ("chemistry_y_column" :> y_column)
                     @@ ("chemistry_log_scale" :> use_log_scale),
         raised |-> raised,
         fig |-> IF raised THEN NoFigure
                 ELSE [shown |-> TRUE,
                       title |-> <<y_column.value[1], x_column, selected_voltage.value[1]>>,
                       traces |-> [i \in DOMAIN chosen |->
                           add_scatter(mean_df, std_df, chosen[i], selected_voltage.value[1],
                                       y_column.value[1], show_error_bars)],
                       log_x |-> use_log_scale.value]]

\* lines 218-280
TabVoltage(mean_df, std_df, show_error_bars, state) ==
    LET available_chemistries == unique([i \in DOMAIN mean_df |-> mean_df[i].index[1]])
        available_voltages == unique([i \in DOMAIN mean_df |-> mean_df[i].index[2]])
        selected_chemistry == radio(state, "voltage_chemistry", available_chemistries)
        selected_voltages ==
            multiselect(state, "voltage_multiselect", available_voltages,
                        <<available_voltages[1]>>)
        y_column_voltage ==
            selectbox(state, "voltage_y_column", filtered_columns, default_index)
        use_log_scale_voltage == checkbox(state, "voltage_log_scale", FALSE)
        chosen == selected_voltages.value
        raised == \E i \in DOMAIN chosen :
                     xs(mean_df, selected_chemistry.value[1], chosen[i]) = <<>>
    IN  [widgets |-> ("voltage_chemistry" :> selected_chemistry)
                     @@ ("voltage_multiselect" :> selected_voltages)
                     @@ ("voltage_y_column" :> y_column_voltage)
                     @@ ("voltage_log_scale" :> use_log_scale_voltage),
         raised |-> raised,
         fig |-> IF raised THEN NoFigure
                 ELSE [shown |-> TRUE,
                       title |-> <<y_column_voltage.value[1], x_column,
                                   selected_chemistry.value[1]>>,
                       traces |-> [i \in DOMAIN chosen |->
                           add_scatter(mean_df, std_df, selected_chemistry.value[1], chosen[i],
                                       y_column_voltage.value[1], show_error_bars)],
                       log_x |-> use_log_scale_voltage.value]]

\* The module globals an execution leaves.
Globals(txt_files_, parsed_files_, grouped_results, grouped_files_) ==
    [defined |-> TRUE, txt_files |-> txt_files_, parsed_files |-> parsed_files_,
     grouped_results |-> grouped_results, grouped_files |-> grouped_files_]

Page(exception, fig_chemistry, fig_voltage) ==
    [rendered |-> TRUE, exception |-> exception,
     fig_chemistry |-> fig_chemistry, fig_voltage |-> fig_voltage]

\* lines 86-280, once group_data has returned.
Render(txt_files_, parsed, grouped_results, state) ==
    LET sidebar == Sidebar(parsed, grouped_results, state)
        selected_key == sidebar["device_configuration_dropdown"].value
        show_error_bars == sidebar["error_bars_toggle"].value
        globals == Globals(txt_files_, parsed, grouped_results, GroupedFiles(parsed))
    IN  IF selected_key = <<>>
        THEN [viewer |-> globals, widgets |-> sidebar,
              page |-> Page(FALSE, NoFigure, NoFigure)]
        ELSE LET at == CHOOSE i \in DOMAIN grouped_results :
                           grouped_results[i].key = selected_key[1]
                 mean_df == grouped_results[at].mean_df
                 std_df  == grouped_results[at].std_df
             IN  IF mean_df = <<>>
                 THEN [viewer |-> globals, widgets |-> sidebar,
                       page |-> Page(TRUE, NoFigure, NoFigure)]
                 ELSE LET chemistry == TabChemistry(mean_df, std_df, show_error_bars, state)
                          voltage   == TabVoltage(mean_df, std_df, show_error_bars, state)
                      IN  IF chemistry.raised
                          THEN [viewer |-> globals,
                                widgets |-> sidebar @@ chemistry.widgets,
                                page |-> Page(TRUE, NoFigure, NoFigure)]
                          ELSE [viewer |-> globals,
                                widgets |-> sidebar @@ chemistry.widgets @@ voltage.widgets,
                                page |-> Page(voltage.raised, chemistry.fig, voltage.fig)]

\* ---- the session

\* The table a file of the session holds.
ViewerTable(name) ==
    CASE name = ViewerNames[1] -> TableHigh
      [] name = ViewerNames[2] -> TableRun2
      [] name = ViewerNames[3] -> TableMid
      [] OTHER -> TableLow

File(name, body) == [name |-> name, body |-> body]

\* The directories a session starts on.
ViewerDirectories ==
    { [i \in 1..n |-> File(ViewerNames[i], GoodBody(ViewerTable(ViewerNames[i])))]
        : n \in 1..3 }

\* The bodies a file is rewritten with.
RewrittenBodies == {GoodBody(TableRun2), GoodBody(TableLow), NoHeaderBody}

RemoveAt(q, i) == SubSeq(q, 1, i - 1) \o SubSeq(q, i + 1, Len(q))

\* The directory is read as it stands, once for the whole session.
raw_data_of_session_start ==
    IF raw_data_at_run = <<>> THEN viewer_raw_data ELSE raw_data_at_run[1]

\* line 40 and line 32: os.listdir and open read the directory as it stands.
raw_data_now == viewer_raw_data

\* The session state an execution starts from.
session_state == [k \in DOMAIN widgets |-> widgets[k].value]

\* What one execution leaves: the globals, the widgets and the page, after
\* one os.listdir and `loads` calls of load_data.
Leave(run, loads) ==
    /\ script_runs' = script_runs + 1
    /\ listdir_calls' = listdir_calls + 1
    /\ load_calls' = load_calls + loads
    /\ viewer' = run.viewer
    /\ widgets' = run.widgets
    /\ page' = run.page
    /\ raw_data_at_run' = Append(raw_data_at_run, viewer_raw_data)
    /\ UNCHANGED <<viewer_raw_data, disk_changes, batch_vars, combine_vars>>

\* line 40
TxtFiles(directory) ==
    SelectSeq([i \in DOMAIN directory |-> directory[i].name], LAMBDA f : EndsWith(f, ".txt"))

\* The body open() finds under each name.
BodiesOf(directory) ==
    [f \in {directory[i].name : i \in DOMAIN directory} |->
        directory[CHOOSE i \in DOMAIN directory : directory[i].name = f].body]

\* Streamlit executes the script, lines 40-280, from its first line to its
\* last, or to the first exception, from the session state `state`.
RunScript(state) ==
    \E txt_files_ \in {TxtFiles(raw_data_now)} :
    \E bodies \in {BodiesOf(raw_data_now)} :
    \E parsed \in {ParsedFiles(txt_files_)} :
    \E raise_at \in {FirstRaise(parsed, bodies, 1)} :
        IF raise_at # 0
        THEN Leave([viewer |-> Globals(txt_files_, parsed, <<>>, <<>>),
                    widgets |-> NoWidgets,
                    page |-> Page(TRUE, NoFigure, NoFigure)], raise_at)
        ELSE \E grouped_data \in {GroupedData(parsed, bodies)} :
             \E grouped_results \in {group_data(grouped_data)} :
             \E run \in {Render(txt_files_, parsed, grouped_results, state)} :
                 Leave(run, Len(parsed))

\* The page is opened: the first execution, on an empty session state.
SessionStart ==
    /\ session = "closed"
    /\ session' = "open"
    /\ RunScript(NoWidgets)

\* The values the user can give a widget in one interaction.
NewValues(w) ==
    CASE w.kind = "checkbox" -> {~ w.value}
      [] w.kind = "multiselect" ->
            {Append(w.value, o) : o \in Range(w.options) \ Range(w.value)}
            \cup {RemoveAt(w.value, i) : i \in DOMAIN w.value}
      [] OTHER -> {<<o>> : o \in Range(w.options)} \ {w.value}

\* lines 93-125, 159-176, 223-241: the user changes one widget, and
\* Streamlit executes the script again with the new value in the session state.
WidgetChange ==
    /\ session = "open"
    /\ script_runs < MaxRuns
    /\ \E k \in DOMAIN widgets : \E v \in NewValues(widgets[k]) :
          RunScript([session_state EXCEPT ![k] = v])
    /\ UNCHANGED session

\* A file of raw_data is added, removed or rewritten while the session is open.
DiskChange ==
    /\ session = "open"
    /\ disk_changes < MaxDiskChanges
    /\ disk_changes' = disk_changes + 1
    /\ \/ \E n \in Range(ViewerNames) \ {viewer_raw_data[i].name : i \in DOMAIN viewer_raw_data} :
             viewer_raw_data' = Append(viewer_raw_data, File(n, GoodBody(ViewerTable(n))))
       \/ \E i \in DOMAIN viewer_raw_data :
             viewer_raw_data' = RemoveAt(viewer_raw_data, i)
       \/ \E i \in DOMAIN viewer_raw_data : \E b \in RewrittenBodies \ {viewer_raw_data[i].body} :
             viewer_raw_data' = [viewer_raw_data EXCEPT ![i].body = b]
    /\ UNCHANGED <<session, script_runs, listdir_calls, load_calls, viewer, widgets, page,
                   raw_data_at_run, batch_vars, combine_vars>>

InitViewer ==
    /\ viewer_raw_data \in ViewerDirectories
    /\ session = "closed"
    /\ script_runs = 0
    /\ listdir_calls = 0
    /\ load_calls = 0
    /\ viewer = NoGlobals
    /\ widgets = NoWidgets
    /\ page = NoPage
    /\ raw_data_at_run = <<>>
    /\ disk_changes = 0
    /\ BatchIdle
    /\ CombineIdle

NextViewer == SessionStart \/ WidgetChange \/ DiskChange

SpecViewer == InitViewer /\ [][NextViewer]_vars

\* ------------------------------------------------------------- properties

RunEnded == pc \in {"complete", "aborted"}

Created == {j \in DOMAIN log : log[j].outcome = "created"}

\* The parsed identity of a member file.
Identity(f) == Characteristics(parsed_files, f)

\* The frequency_range values of the members of a group.
RangesOf(g) == {Identity(f).frequency_range : f \in Range(g.files)}

\* The group has an output file in the working directory.
HasOutput(g) ==
    \E j \in Created : log[j].key = g.key /\ log[j].new_filename \in DOMAIN cwd

ThreeSubRanges == {"500k-5kHz", "5k-200Hz", "200-1Hz"}

TablesLoad(g) ==
    \A f \in Range(g.files) : raw_data[f].comment_lines # <<>> /\ raw_data[f].parses

DatesExist(g) == \A f \in Range(g.files) : ~ strptime_raises(Identity(f).date)

\* The combine loop cannot get past the group.
Fatal(g) == RangesOf(g) = ThreeSubRanges /\ ~ (TablesLoad(g) /\ DatesExist(g))

DayNumber(d) ==
    int(SubSeq(d, 1, 4)) * 372 + int(SubSeq(d, 6, 7)) * 31 + int(SubSeq(d, 9, 10))

\* The code point order of the characters of a date.
CharRank(c) == IF c = "-" THEN 0 ELSE 1 + DigitVal(c)

\* a <= b in the lexicographic order of strings of equal length.
LexLeq(a, b) ==
    \/ a = b
    \/ \E i \in 1..Len(a) :
          /\ CharRank(Char(a, i)) < CharRank(Char(b, i))
          /\ \A k \in 1..(i - 1) : Char(a, k) = Char(b, k)

\* C8: the date in the synthesized file name is the date of a member, no
\* member has a later date, and it is the lexicographic maximum of the
\* members' date strings, whatever the order of the members.
C8_NewestDate ==
    \A j \in Created :
        LET dates == {Identity(f).date : f \in Range(log[j].files)}
            d     == SubSeq(log[j].new_filename, 1, 10)
        IN  /\ d = log[j].newest_date
            /\ d \in dates
            /\ \A e \in dates : DayNumber(e) <= DayNumber(d)
            /\ \A e \in dates : LexLeq(e, d)

\* A combined group whose newest date is not the first member's and is
\* shared by two members.
C8_Witness ==
    \E j \in Created :
        /\ Identity(log[j].files[1]).date # log[j].newest_date
        /\ Cardinality({f \in Range(log[j].files) : Identity(f).date = log[j].newest_date}) = 2
        /\ Cardinality({Identity(f).date : f \in Range(log[j].files)}) = 3

\* ---- grouping

Grouped == pc \in {"combine", "complete", "aborted"}

ParsedNames == {parsed_files[i].file : i \in DOMAIN parsed_files}

KeyFields ==
    {"device_chemistry", "device_pixel", "device_configuration",
     "voltage_offset", "voltage_amplitude"}

\* The a-th and the b-th parsed file agree on the five fields of the key.
SameKey(a, b) ==
    \A k \in KeyFields :
        parsed_files[a].characteristics[k] = parsed_files[b].characteristics[k]

Together(f1, f2) ==
    \E i \in DOMAIN grouped_files :
        f1 \in Range(grouped_files[i].files) /\ f2 \in Range(grouped_files[i].files)

\* The places (group, position) where a file stands in grouped_files.
PlacesOf(f) ==
    UNION {{<<i, j>> : j \in {n \in DOMAIN grouped_files[i].files : grouped_files[i].files[n] = f}}
             : i \in DOMAIN grouped_files}

\* C2: once the files are grouped, every parsed file stands in exactly one
\* group, two files are in one group iff their five key fields are equal as
\* strings, and the sets of members are the classes of that equivalence,
\* whatever the order of the listing.
C2_GroupingIsPartition ==
    Grouped =>
        /\ \A a \in DOMAIN parsed_files : Cardinality(PlacesOf(parsed_files[a].file)) = 1
        /\ \A i \in DOMAIN grouped_files : Range(grouped_files[i].files) \subseteq ParsedNames
        /\ \A a, b \in DOMAIN parsed_files :
              Together(parsed_files[a].file, parsed_files[b].file) <=> SameKey(a, b)
        /\ {Range(grouped_files[i].files) : i \in DOMAIN grouped_files}
             = {{parsed_files[b].file : b \in {c \in DOMAIN parsed_files : SameKey(a, c)}}
                  : a \in DOMAIN parsed_files}

\* Grouped files with at least four groups, one of them with two members
\* that differ in their date.
C2_Witness ==
    /\ Grouped
    /\ Len(grouped_files) >= 4
    /\ \E i \in DOMAIN grouped_files :
          /\ Len(grouped_files[i].files) = 2
          /\ Parsed(grouped_files[i].files[1]).date # Parsed(grouped_files[i].files[2]).date

\* ---- the synthesized name

\* C3: the synthesized name of every combined group is accepted by
\* parse_filename and parses back to the synthesized degradation, range and
\* capture fields and to the five fields of the group key.
C3_NameRoundTrip ==
    \A j \in Created :
        LET r == parse_filename(log[j].new_filename)
            key == KeyDict(log[j].key)
        IN  /\ r # None
            /\ r.device_degradation = IntToStr(log[j].highest_degradation) \o "daydeg"
            /\ r.frequency_range = "500k-1Hz"
            /\ r.datapoint_capture = IntToStr(log[j].total_datapoint_capture) \o "p-1s"
            /\ \A k \in KeyFields : r[k] = key[k]

\* ---- parse_filename is all or nothing

NineFields ==
    {"date", "device_chemistry", "device_pixel", "device_configuration",
     "device_degradation", "frequency_range", "datapoint_capture",
     "voltage_offset", "voltage_amplitude"}

\* The files that stand in a group or behind an entry of the log.
Processed ==
    ParsedNames
    \cup UNION {Range(grouped_files[i].files) : i \in DOMAIN grouped_files}
    \cup UNION {Range(log[j].files) : j \in DOMAIN log}

\* C4: for every name of the directory parse_filename gives no match or all
\* nine fields, each non-empty; a name with no match is in parsed_files, in a
\* group or behind an output never; and it does not abort the run (here every
\* such file has a body that would not load).
C4_ParseAllOrNothing ==
    /\ \A f \in Range(listdir_order) :
          LET r == Parsed(f)
          IN  \/ r = None
              \/ DOMAIN r = NineFields /\ \A k \in NineFields : Len(r[k]) > 0
    /\ \A f \in Range(listdir_order) : Parsed(f) = None => f \notin Processed
    /\ pc # "aborted"

\* A finished run over a directory with two rejected names and a combined group.
C4_Witness ==
    /\ pc = "complete"
    /\ Cardinality({f \in Range(listdir_order) : Parsed(f) = None}) >= 2
    /\ Created # {}

\* ---- capture count and degradation peak

\* The maximal runs of digits of a string, as pairs of positions.
DigitRuns(s) ==
    {<<a, b>> \in (1..Len(s)) \X (1..Len(s)) :
        /\ a <= b
        /\ \A i \in a..b : IsDigit(Char(s, i))
        /\ a = 1 \/ ~ IsDigit(Char(s, a - 1))
        /\ b = Len(s) \/ ~ IsDigit(Char(s, b + 1))}

RECURSIVE Pow10(_)
Pow10(n) == IF n = 0 THEN 1 ELSE 10 * Pow10(n - 1)

\* The sum of the values of the function fn over the set S.
RECURSIVE SumOfSet(_, _)
SumOfSet(S, fn) ==
    IF S = {} THEN 0
    ELSE LET x == CHOOSE y \in S : TRUE IN fn[x] + SumOfSet(S \ {x}, fn)

\* The number a run of digits of s spells.
RunValue(s, run) ==
    SumOfSet(run[1]..run[2],
             [i \in run[1]..run[2] |-> DigitVal(Char(s, i)) * Pow10(run[2] - i)])

\* The sum of the integers embedded in a token.
TokenSum(s) == SumOfSet(DigitRuns(s), [run \in DigitRuns(s) |-> RunValue(s, run)])

\* The integers embedded in a token.
TokenInts(s) == {RunValue(s, run) : run \in DigitRuns(s)}

\* C6: the capture count of every combined group is the sum, over its member
\* files (each once), of every integer embedded in the file's
\* datapoint_capture token.
C6_CaptureCountIsSum ==
    \A j \in Created :
        log[j].total_datapoint_capture =
            SumOfSet(Range(log[j].files),
                     [f \in Range(log[j].files) |-> TokenSum(Identity(f).datapoint_capture)])

\* A combined group with two files of one sub-range, a token with two
\* integers ("10p5s") and a token with none ("p").
C6_Witness ==
    \E j \in Created :
        LET tokens == {Identity(f).datapoint_capture : f \in Range(log[j].files)}
        IN  /\ Len(log[j].files) >= 4
            /\ {"10p5s", "p"} \subseteq tokens
            /\ log[j].total_datapoint_capture > 15

\* C7: the degradation peak of every combined group is the largest integer
\* embedded in any member's device_degradation token, 0 when there is none,
\* and never below an embedded integer.
C7_PeakDegradation ==
    \A j \in Created :
        LET ints == UNION {TokenInts(Identity(f).device_degradation) : f \in Range(log[j].files)}
            peak == log[j].highest_degradation
        IN  /\ ints = {} => peak = 0
            /\ ints # {} => peak \in ints
            /\ \A n \in ints : n <= peak

\* A combined group whose peak comes from the second integer of a token ("2d10h").
C7_Witness ==
    \E j \in Created :
        /\ "2d10h" \in {Identity(f).device_degradation : f \in Range(log[j].files)}
        /\ log[j].highest_degradation = 10

\* A combined group none of whose degradation tokens holds a digit.
C7_ZeroPeakReached ==
    \E j \in Created :
        /\ \A f \in Range(log[j].files) : TokenInts(Identity(f).device_degradation) = {}
        /\ log[j].highest_degradation = 0

\* ---- a table that does not load

\* The output files, by the log: the names of the combined groups.
CreatedNames == {log[j].new_filename : j \in Created}

InputRows == UNION {{<<t, r>> : r \in DOMAIN arg_dfs[t]} : t \in DOMAIN arg_dfs}

InputRowsAt(k) == {p \in InputRows : arg_dfs[p[1]][p[2]].f = k}

\* C5: the result of combine_dataframes has one row for every frequency of
\* the input and no other row, the value of a row is the mean of the channel
\* over the input rows of that frequency (the value itself when there is one
\* such row), and the rows ascend in frequency.
C5_CombineAveragesAndSorts ==
    result_df.called =>
        LET out == result_df.df
        IN  /\ {out[i].f : i \in DOMAIN out} = {arg_dfs[p[1]][p[2]].f : p \in InputRows}
            /\ \A i, j \in DOMAIN out : i < j => out[i].f < out[j].f
            /\ \A i \in DOMAIN out :
                  LET at  == InputRowsAt(out[i].f)
                      sum == SumOfSet(at, [p \in at |-> arg_dfs[p[1]][p[2]].v])
                  IN  /\ out[i].v.den > 0
                      /\ out[i].v.num * Cardinality(at) = out[i].v.den * sum
                      /\ Cardinality(at) = 1 => out[i].v = [num |-> sum, den |-> 1]

\* Two tables that share the frequency 1000 with the values 2 and 4, given
\* out of order, combined into the mean 3 and one untouched row.
C5_Witness ==
    /\ arg_dfs = << <<[f |-> 1000, v |-> 2]>>, <<[f |-> 1, v |-> 5], [f |-> 1000, v |-> 4]>> >>
    /\ result_df.called
    /\ result_df.df = << [f |-> 1, v |-> [num |-> 5, den |-> 1]],
                       [f |-> 1000, v |-> [num |-> 3, den |-> 1]] >>

\* ---- the viewer's session

SessionOpen == session = "open"

\* The files of a directory the script reads: .txt names that parse.
Matching(d) == {i \in DOMAIN d : EndsWith(d[i].name, ".txt") /\ Parsed(d[i].name) # None}

Unreadable(d, i) ==
    \/ load_data_raises(d[i].body)
    \/ float_raises(Parsed(d[i].name).voltage_amplitude)

Readable(d) == \A i \in Matching(d) : ~ Unreadable(d, i)

\* The files one execution reads: every matching file up to the first that fails.
ReadsOf(d) ==
    Cardinality({i \in Matching(d) : \A j \in Matching(d) : j < i => ~ Unreadable(d, j)})

\* The four fields that make a group of the viewer.
StatisticsKey(name) ==
    LET m == Parsed(name)
    IN  <<m.device_configuration, m.frequency_range, m.datapoint_capture, m.voltage_offset>>

\* The index of a row of a file in the tables of its group.
IndexAt(d, i, j) ==
    <<Parsed(d[i].name).device_chemistry, float(Parsed(d[i].name).voltage_amplitude),
      d[i].body.rows[j].f>>

\* The rows of the directory, as (file, row) positions, that belong to a group.
RowsOfGroup(d, key) ==
    UNION {{<<i, j>> : j \in DOMAIN d[i].body.rows}
             : i \in {i \in Matching(d) : StatisticsKey(d[i].name) = key}}

\* grouped_results holds the statistics of the directory d: one entry per
\* group of d, one row per (chemistry, amplitude, frequency) of the group,
\* the mean and the sample variance of the rows of d at that index.
StatisticsFrom(d) ==
    LET results == viewer.grouped_results
    IN  /\ {results[k].key : k \in DOMAIN results}
             = {StatisticsKey(d[i].name) : i \in Matching(d)}
        /\ \A a, b \in DOMAIN results : results[a].key = results[b].key => a = b
        /\ \A k \in DOMAIN results :
              LET rows    == RowsOfGroup(d, results[k].key)
                  mean_df == results[k].mean_df
                  std_df  == results[k].std_df
              IN  /\ {mean_df[r].index : r \in DOMAIN mean_df}
                       = {IndexAt(d, p[1], p[2]) : p \in rows}
                  /\ Len(mean_df) = Cardinality({IndexAt(d, p[1], p[2]) : p \in rows})
                  /\ Len(std_df) = Len(mean_df)
                  /\ \A r \in DOMAIN mean_df :
                        LET at   == {p \in rows : IndexAt(d, p[1], p[2]) = mean_df[r].index}
                            n    == Cardinality(at)
                            sum  == SumOfSet(at, [p \in at |-> d[p[1]].body.rows[p[2]].v])
                            sq   == SumOfSet(at, [p \in at |-> d[p[1]].body.rows[p[2]].v
                                                              * d[p[1]].body.rows[p[2]].v])
                            mean == mean_df[r].values["Demod_4_X_A (V)"]
                            var  == std_df[r].values["Demod_4_X_A (V)"]
                        IN  /\ std_df[r].index = mean_df[r].index
                            /\ mean.den > 0
                            /\ mean.num * n = mean.den * sum
                            /\ IF n = 1 THEN var = NaN
                               ELSE /\ var.den > 0
                                    /\ var.num * n * (n - 1) = var.den * (n * sq - sum * sum)

\* Every point of a figure is a row of the tables of the selected group.
FigureFrom(fig, y_key) ==
    fig.shown =>
        \A t \in DOMAIN fig.traces : \A q \in DOMAIN fig.traces[t].x :
            \E k \in DOMAIN viewer.grouped_results :
                /\ <<viewer.grouped_results[k].key>>
                     = widgets["device_configuration_dropdown"].value
                /\ \E r \in DOMAIN viewer.grouped_results[k].mean_df :
                      LET row == viewer.grouped_results[k].mean_df[r]
                      IN  /\ row.index[1] = fig.traces[t].name[1]
                          /\ row.index[2] = fig.traces[t].name[2]
                          /\ Frac(row.index[3], 1) = fig.traces[t].x[q]
                          /\ row.values[widgets[y_key].value[1]] = fig.traces[t].y[q]

PageFromSnapshot ==
    /\ FigureFrom(page.fig_chemistry, "chemistry_y_column")
    /\ FigureFrom(page.fig_voltage, "voltage_y_column")

\* The statistics and the page come from the directory d.
ServedFrom(d) ==
    IF Readable(d) THEN StatisticsFrom(d) /\ PageFromSnapshot
    ELSE page.exception /\ ~ page.fig_chemistry.shown /\ ~ page.fig_voltage.shown

\* C9, as stated: in an open session the directory has been listed once and
\* its files read once, at session start, and the statistics and the page
\* are those of the directory as it was at session start, whatever filter
\* or selection changed since and whatever changed on disk.
C9_ComputedOnceAtSessionStart ==
    SessionOpen =>
        /\ listdir_calls = 1
        /\ load_calls = ReadsOf(raw_data_at_run[1])
        /\ ServedFrom(raw_data_at_run[1])

\* C9, amended: the script is executed at session start and again at every
\* filter or selection change; every execution lists raw_data and reads its
\* matching files again, and the statistics and the page are those of the
\* directory as the last execution found it. A change on disk shows at the
\* next filter or selection change, not before.
C9_ComputedOnEveryRun ==
    SessionOpen =>
        /\ script_runs = Len(raw_data_at_run)
        /\ listdir_calls = script_runs
        /\ load_calls = SumSeq([r \in DOMAIN raw_data_at_run |-> ReadsOf(raw_data_at_run[r])])
        /\ ServedFrom(raw_data_at_run[script_runs])

\* A session started on one file; a second measurement of the same cell was
\* added to raw_data, a widget was changed, and the figure shows the mean of
\* the two files, 7/2 at 5000 Hz, where the first file alone gave 2.
C9_Witness ==
    /\ SessionOpen
    /\ script_runs >= 2
    /\ Len(raw_data_at_run[1]) = 1
    /\ Len(viewer_raw_data) = 2
    /\ raw_data_at_run[script_runs] = viewer_raw_data
    /\ page.fig_chemistry.shown
    /\ \E t \in DOMAIN page.fig_chemistry.traces :
          \E q \in DOMAIN page.fig_chemistry.traces[t].y :
              /\ page.fig_chemistry.traces[t].x[q] = [num |-> 5000, den |-> 1]
              /\ page.fig_chemistry.traces[t].y[q] = [num |-> 7, den |-> 2]

====
